---- MODULE Spec2Model ----
(***************************************************************************)
(* Model of doctor_marketcap_analysis.py: the estimator                    *)
(* compute_market_cap, the command-line adapter main, and the script entry *)
(* point.                                                                  *)
(*                                                                         *)
(* Python's int is an unbounded integer and Python's float is an IEEE-754  *)
(* binary64.  Both are modelled exactly: an unbounded natural is a         *)
(* little-endian sequence of limbs in base 2^15 (so that every limb        *)
(* product stays inside the model checker's machine integers), an int is a *)
(* sign and a magnitude, and a float is a sign, an odd mantissa and a      *)
(* binary exponent, or one of inf, -inf, nan.                              *)
(***************************************************************************)
EXTENDS Integers, Sequences, FiniteSets, TLC

(***************************************************************************)
(* Unbounded naturals (the magnitude of a Python int, a float's mantissa). *)
(***************************************************************************)
\* the element of a singleton.  The({e : x \in {v}}) is e with x bound to v: v is
\* evaluated once, and before e
The(S) == CHOOSE x \in S : TRUE

Max(u, v) == IF u >= v THEN u ELSE v
Min(u, v) == IF u <= v THEN u ELSE v

LimbBits == 15
Base == 2^LimbBits

NatZero == <<>>
NatOne == <<1>>

\* limb i of a, 0 beyond its length
Limb(a, i) == IF i <= Len(a) THEN a[i] ELSE 0

\* the index of the highest limb among lo..hi of s that is not 0, or 0
RECURSIVE HighLimb(_, _, _)
HighLimb(s, lo, hi) ==
    IF lo > hi THEN 0
    ELSE IF lo = hi THEN (IF s[lo] # 0 THEN lo ELSE 0)
    ELSE LET mid == (lo + hi) \div 2
         IN  The({IF h # 0 THEN h ELSE HighLimb(s, lo, mid) :
                  h \in {HighLimb(s, mid + 1, hi)}})

\* the index of the lowest limb among lo..hi of s that is not 0, or 0
RECURSIVE LowLimb(_, _, _)
LowLimb(s, lo, hi) ==
    IF lo > hi THEN 0
    ELSE IF lo = hi THEN (IF s[lo] # 0 THEN lo ELSE 0)
    ELSE LET mid == (lo + hi) \div 2
         IN  The({IF l # 0 THEN l ELSE LowLimb(s, mid + 1, hi) :
                  l \in {LowLimb(s, lo, mid)}})

\* s without its leading zero limbs
NatNorm(s) ==
    IF s = <<>> THEN <<>>
    ELSE IF s[Len(s)] # 0 THEN s
    ELSE SubSeq(s, 1, HighLimb(s, 1, Len(s)))

RECURSIVE NatOf(_)
NatOf(k) == IF k = 0 THEN <<>> ELSE <<k % Base>> \o NatOf(k \div Base)

\* <<limbs lo..hi of a + b + c, the carry out>>
RECURSIVE NatAddRange(_, _, _, _, _)
NatAddRange(a, b, lo, hi, c) ==
    IF lo > hi THEN <<<<>>, c>>
    ELSE IF lo = hi
         THEN LET s == Limb(a, lo) + Limb(b, lo) + c IN <<<<s % Base>>, s \div Base>>
    ELSE LET mid == (lo + hi) \div 2
         IN  The({The({<<l[1] \o h[1], h[2]>> :
                       h \in {NatAddRange(a, b, mid + 1, hi, l[2])}}) :
                  l \in {NatAddRange(a, b, lo, mid, c)}})

NatAdd(a, b) ==
    The({IF r[2] = 0 THEN r[1] ELSE Append(r[1], r[2]) :
         r \in {NatAddRange(a, b, 1, Max(Len(a), Len(b)), 0)}})

\* <<limbs lo..hi of a - b - w, the borrow out>>
RECURSIVE NatSubRange(_, _, _, _, _)
NatSubRange(a, b, lo, hi, w) ==
    IF lo > hi THEN <<<<>>, w>>
    ELSE IF lo = hi
         THEN LET d == a[lo] - Limb(b, lo) - w
              IN  <<<<d % Base>>, IF d < 0 THEN 1 ELSE 0>>
    ELSE LET mid == (lo + hi) \div 2
         IN  The({The({<<l[1] \o h[1], h[2]>> :
                       h \in {NatSubRange(a, b, mid + 1, hi, l[2])}}) :
                  l \in {NatSubRange(a, b, lo, mid, w)}})

\* a - b for a >= b
NatSub(a, b) == NatNorm(NatSubRange(a, b, 1, Len(a), 0)[1])

\* -1, 0 or 1 as limbs lo..hi of a are below, equal to, above those of b
RECURSIVE NatCmpRange(_, _, _, _)
NatCmpRange(a, b, lo, hi) ==
    IF lo > hi THEN 0
    ELSE IF lo = hi
         THEN (IF a[lo] < b[lo] THEN -1 ELSE IF a[lo] > b[lo] THEN 1 ELSE 0)
    ELSE LET mid == (lo + hi) \div 2
         IN  The({IF h # 0 THEN h ELSE NatCmpRange(a, b, lo, mid) :
                  h \in {NatCmpRange(a, b, mid + 1, hi)}})

\* -1, 0 or 1 as a < b, a = b, a > b
NatCmp(a, b) ==
    IF Len(a) < Len(b) THEN -1
    ELSE IF Len(a) > Len(b) THEN 1
    ELSE NatCmpRange(a, b, 1, Len(a))

\* <<limbs lo..hi of a * k + c, the carry out>>
RECURSIVE NatMulSmallRange(_, _, _, _, _)
NatMulSmallRange(a, k, lo, hi, c) ==
    IF lo > hi THEN <<<<>>, c>>
    ELSE IF lo = hi
         THEN LET p == a[lo] * k + c IN <<<<p % Base>>, p \div Base>>
    ELSE LET mid == (lo + hi) \div 2
         IN  The({The({<<l[1] \o h[1], h[2]>> :
                       h \in {NatMulSmallRange(a, k, mid + 1, hi, l[2])}}) :
                  l \in {NatMulSmallRange(a, k, lo, mid, c)}})

\* a * k for 0 <= k < Base
NatMulSmall(a, k) ==
    The({NatNorm(IF r[2] = 0 THEN r[1] ELSE Append(r[1], r[2])) :
         r \in {NatMulSmallRange(a, k, 1, Len(a), 0)}})

\* a * Base^q
NatShiftLimbs(a, q) == IF a = <<>> THEN <<>> ELSE [i \in 1..q |-> 0] \o a

\* a times the number whose limbs are limbs lo..hi of b
RECURSIVE NatMulRange(_, _, _, _)
NatMulRange(a, b, lo, hi) ==
    IF lo > hi THEN NatZero
    ELSE IF lo = hi THEN NatMulSmall(a, b[lo])
    ELSE LET mid == (lo + hi) \div 2
         IN  The({NatAdd(l, NatShiftLimbs(NatMulRange(a, b, mid + 1, hi), mid - lo + 1)) :
                  l \in {NatMulRange(a, b, lo, mid)}})

\* a * b, the shorter operand as the multiplier
NatMul(a, b) ==
    IF Len(a) < Len(b) THEN NatMulRange(b, a, 1, Len(a))
    ELSE NatMulRange(a, b, 1, Len(b))

\* a * 2^k
NatShl(a, k) == NatShiftLimbs(NatMulSmall(a, 2^(k % LimbBits)), k \div LimbBits)

\* floor(a / 2^k)
NatShr(a, k) ==
    LET q == k \div LimbBits
        r == k % LimbBits
        n == Len(a) - q
    IN  IF n <= 0 THEN <<>>
        ELSE NatNorm([i \in 1..n |->
                (a[q + i] \div 2^r)
                + ((IF i < n THEN a[q + i + 1] ELSE 0) % 2^r) * 2^(LimbBits - r)])

RECURSIVE SmallBitLen(_)
SmallBitLen(x) == IF x = 0 THEN 0 ELSE 1 + SmallBitLen(x \div 2)

\* the number of bits of a (0 for 0)
NatBitLen(a) ==
    IF a = <<>> THEN 0 ELSE LimbBits * (Len(a) - 1) + SmallBitLen(a[Len(a)])

NatIsOdd(a) == a # <<>> /\ a[1] % 2 = 1

RECURSIVE SmallTrailingZeros(_)
SmallTrailingZeros(x) == IF x % 2 = 1 THEN 0 ELSE 1 + SmallTrailingZeros(x \div 2)

\* the number of trailing zero bits of a > 0
NatTrailingZeros(a) ==
    The({LimbBits * (l - 1) + SmallTrailingZeros(a[l]) : l \in {LowLimb(a, 1, Len(a))}})

\* q or q + 1, the one nearest to the quotient of a division by d that left q and
\* the remainder r; ties to even
NatNearest(q, r, d) ==
    The({IF c > 0 \/ (c = 0 /\ NatIsOdd(q)) THEN NatAdd(q, NatOne) ELSE q :
         c \in {NatCmp(NatMulSmall(r, 2), d)}})

\* a / 2^k rounded to the nearest integer, ties to even
NatShrHalfEven(a, k) ==
    IF k <= 0 THEN a
    ELSE The({NatNearest(q, NatSub(a, NatShl(q, k)), NatShl(NatOne, k)) :
              q \in {NatShr(a, k)}})

\* the largest k + x, 0 <= x < 2^(j+1), with (k + x) * d <= r; for r < d * Base
RECURSIVE NatQuotDigit(_, _, _, _)
NatQuotDigit(r, d, j, k) ==
    IF j < 0 THEN k
    ELSE IF NatCmp(NatMulSmall(d, k + 2^j), r) <= 0
         THEN NatQuotDigit(r, d, j - 1, k + 2^j)
         ELSE NatQuotDigit(r, d, j - 1, k)

\* one step of long division by d > 0: <<<<the quotient's limb>>, the remainder>>
\* of r2 < d * Base
NatDivStep(r2, d) ==
    IF NatCmp(r2, d) < 0 THEN <<<<0>>, r2>>
    ELSE The({<<<<k>>, NatSub(r2, NatMulSmall(d, k))>> :
              k \in {NatQuotDigit(r2, d, LimbBits - 1, 0)}})

\* long division by d > 0 of the limbs hi down to lo of a, r the remainder so far:
\* <<the limbs lo..hi of the quotient, the remainder>>
RECURSIVE NatDivRange(_, _, _, _, _)
NatDivRange(a, d, lo, hi, r) ==
    IF lo > hi THEN <<<<>>, r>>
    ELSE IF lo = hi
         THEN NatDivStep(NatAdd(NatShiftLimbs(r, 1), NatOf(a[lo])), d)
    ELSE LET mid == (lo + hi) \div 2
         IN  The({The({<<l[1] \o h[1], l[2]>> :
                       l \in {NatDivRange(a, d, lo, mid, h[2])}}) :
                  h \in {NatDivRange(a, d, mid + 1, hi, r)}})

\* <<floor(a / d), a mod d>> for d > 0
NatDivMod(a, d) ==
    The({<<NatNorm(qr[1]), qr[2]>> : qr \in {NatDivRange(a, d, 1, Len(a), NatZero)}})

\* 2 * floor(a / d), plus 1 when the division leaves a remainder: the quotient
\* with a sticky bit, which rounds as a / d does
NatDivSticky(a, d) ==
    The({NatAdd(NatMulSmall(qr[1], 2), IF qr[2] = NatZero THEN NatZero ELSE NatOne) :
         qr \in {NatDivMod(a, d)}})

RECURSIVE NatPow10(_)
NatPow10(k) ==
    IF k = 0 THEN NatOne
    ELSE IF k % 2 = 1 THEN NatMulSmall(NatPow10(k - 1), 10)
    ELSE The({NatMul(h, h) : h \in {NatPow10(k \div 2)}})

(***************************************************************************)
(* Python int: a sign and a magnitude; zero is never negative.             *)
(***************************************************************************)
MkInt(neg, mag) == [neg |-> neg /\ mag # NatZero, mag |-> mag]

IntOf(k) == IF k < 0 THEN MkInt(TRUE, NatOf(-k)) ELSE MkInt(FALSE, NatOf(k))

IntZero == MkInt(FALSE, NatZero)

IntNeg(x) == MkInt(~x.neg, x.mag)

\* x + y on ints
IntAdd(x, y) ==
    IF x.neg = y.neg THEN MkInt(x.neg, NatAdd(x.mag, y.mag))
    ELSE IF NatCmp(x.mag, y.mag) >= 0 THEN MkInt(x.neg, NatSub(x.mag, y.mag))
    ELSE MkInt(y.neg, NatSub(y.mag, x.mag))

\* x - y on ints
IntSub(x, y) == IntAdd(x, IntNeg(y))

\* x * y on ints
IntMul(x, y) == MkInt(x.neg # y.neg, NatMul(x.mag, y.mag))

\* -1, 0 or 1 as x < y, x = y, x > y
IntCmp(x, y) ==
    IF x.neg /\ ~y.neg THEN -1
    ELSE IF ~x.neg /\ y.neg THEN 1
    ELSE IF x.neg THEN NatCmp(y.mag, x.mag)
    ELSE NatCmp(x.mag, y.mag)

(***************************************************************************)
(* Python float: IEEE-754 binary64.  A finite float is (-1)^neg * mant *   *)
(* 2^exp with mant odd (or mant = 0 and exp = 0, a signed zero), mant <    *)
(* 2^53, exp >= -1074 and a value below 2^1024.                            *)
(***************************************************************************)
MantBits == 53
MinExp == -1074
MaxBits == 1024

FloatNaN == [kind |-> "nan", neg |-> FALSE, mant |-> NatZero, exp |-> 0]
FloatInf(neg) == [kind |-> "inf", neg |-> neg, mant |-> NatZero, exp |-> 0]
FloatZero(neg) == [kind |-> "fin", neg |-> neg, mant |-> NatZero, exp |-> 0]

IsNaN(x) == x.kind = "nan"
IsInf(x) == x.kind = "inf"
IsFinite(x) == x.kind = "fin"
IsZero(x) == x.kind = "fin" /\ x.mant = NatZero

\* the finite float (-1)^neg * m * 2^e for m > 0 of at most 53 bits: its mantissa
\* made odd
FloatCanon(neg, m, e) ==
    The({[kind |-> "fin", neg |-> neg, mant |-> NatShr(m, tz), exp |-> e + tz] :
         tz \in {NatTrailingZeros(m)}})

\* the float nearest to (-1)^neg * m * 2^e, ties to even; inf on overflow
FloatRound(neg, m, e) ==
    IF m = NatZero THEN FloatZero(neg)
    ELSE LET shift == Max(Max(NatBitLen(m) - MantBits, MinExp - e), 0)
         IN  The({IF m2 = NatZero THEN FloatZero(neg)
                  ELSE IF NatBitLen(m2) + e + shift > MaxBits THEN FloatInf(neg)
                  ELSE FloatCanon(neg, m2, e + shift) :
                  m2 \in {NatShrHalfEven(m, shift)}})

\* float(i) for an int i; inf stands for OverflowError (int too large to convert)
IntToFloat(i) == FloatRound(i.neg, i.mag, 0)

\* x * y on floats
FloatMul(x, y) ==
    IF IsNaN(x) \/ IsNaN(y) THEN FloatNaN
    ELSE IF IsInf(x) \/ IsInf(y)
         THEN (IF IsZero(x) \/ IsZero(y) THEN FloatNaN ELSE FloatInf(x.neg # y.neg))
    ELSE FloatRound(x.neg # y.neg, NatMul(x.mant, y.mant), x.exp + y.exp)

\* x + y on floats
FloatAdd(x, y) ==
    IF IsNaN(x) \/ IsNaN(y) THEN FloatNaN
    ELSE IF IsInf(x) /\ IsInf(y) THEN (IF x.neg = y.neg THEN x ELSE FloatNaN)
    ELSE IF IsInf(x) THEN x
    ELSE IF IsInf(y) THEN y
    ELSE IF IsZero(x) /\ IsZero(y) THEN FloatZero(x.neg /\ y.neg)
    ELSE LET e == Min(x.exp, y.exp)
         IN  The({FloatRound(s.neg, s.mag, e) :
                  s \in {IntAdd(MkInt(x.neg, NatShl(x.mant, x.exp - e)),
                                MkInt(y.neg, NatShl(y.mant, y.exp - e)))}})

\* x / y on floats, for y finite and not zero
FloatDiv(x, y) ==
    IF IsNaN(x) THEN FloatNaN
    ELSE IF IsInf(x) THEN FloatInf(x.neg # y.neg)
    ELSE IF IsZero(x) THEN FloatZero(x.neg # y.neg)
    ELSE LET s == Max(MantBits + 2 + NatBitLen(y.mant) - NatBitLen(x.mant), 0)
         IN  FloatRound(x.neg # y.neg, NatDivSticky(NatShl(x.mant, s), y.mant),
                        x.exp - y.exp - s - 1)

\* the int nearest to a finite float, ties to even
FloatRoundHalfEven(x) ==
    IF x.exp >= 0 THEN MkInt(x.neg, NatShl(x.mant, x.exp))
    ELSE MkInt(x.neg, NatShrHalfEven(x.mant, -x.exp))

\* a finite float truncated towards zero
FloatTrunc(x) ==
    IF x.exp >= 0 THEN MkInt(x.neg, NatShl(x.mant, x.exp))
    ELSE MkInt(x.neg, NatShr(x.mant, -x.exp))

\* x == y on floats: nan equals nothing, the two zeros are equal
FloatEq(x, y) ==
    /\ ~IsNaN(x)
    /\ ~IsNaN(y)
    /\ \/ x = y
       \/ IsZero(x) /\ IsZero(y)

\* -1, 0 or 1 as x < y, x = y, x > y, for finite floats
FloatCmp(x, y) ==
    LET e == Min(x.exp, y.exp)
    IN  IntCmp(MkInt(x.neg, NatShl(x.mant, x.exp - e)),
               MkInt(y.neg, NatShl(y.mant, y.exp - e)))

(***************************************************************************)
(* Decimal text.  A number in text (a command-line value, a JSON number, a *)
(* field of the report) is a token: its kind, its sign, its decimal digits *)
(* (most significant first) and the power of ten of its last digit.  Kind  *)
(* "int" is an optional sign and digits; kind "float" has a fraction or an *)
(* exponent; "nan" and "inf" are the non-finite floats; "word" is any text *)
(* that is no number.                                                      *)
(***************************************************************************)
Token(kind, neg, digits, exp10) ==
    [kind |-> kind, neg |-> neg, digits |-> digits, exp10 |-> exp10]

TokNaN == Token("nan", FALSE, <<>>, 0)
TokInf(neg) == Token("inf", neg, <<>>, 0)
TokWord == Token("word", FALSE, <<>>, 0)

\* the natural a decimal digit string denotes
RECURSIVE DigitsToNat(_)
DigitsToNat(ds) ==
    IF ds = <<>> THEN NatZero
    ELSE IF Len(ds) = 1 THEN NatOf(ds[1])
    ELSE LET h == Len(ds) \div 2
         IN  The({NatAdd(NatMul(hi, NatPow10(h)),
                         DigitsToNat(SubSeq(ds, Len(ds) - h + 1, Len(ds)))) :
                  hi \in {DigitsToNat(SubSeq(ds, 1, Len(ds) - h))}})

\* the w decimal digits of a < 10^w
RECURSIVE NatToDigitsW(_, _)
NatToDigitsW(a, w) ==
    IF w = 0 THEN <<>>
    ELSE IF w = 1 THEN <<Limb(a, 1)>>
    ELSE LET h == w \div 2
         IN  The({NatToDigitsW(qr[1], w - h) \o NatToDigitsW(qr[2], h) :
                  qr \in {NatDivMod(a, NatPow10(h))}})

\* whether m * 2^e >= 10^t
GePow10(m, e, t) ==
    NatCmp(NatShl(NatMul(NatPow10(Max(-t, 0)), m), Max(e, 0)),
           NatShl(NatPow10(Max(t, 0)), Max(-e, 0))) >= 0

\* floor(log10(m * 2^e)) for m > 0: the estimate from the bit length, or one off
Log10Floor(m, e) ==
    LET est == ((NatBitLen(m) + e - 1) * 30103) \div 100000
    IN  IF GePow10(m, e, est + 1) THEN est + 1
        ELSE IF GePow10(m, e, est) THEN est
        ELSE est - 1

\* the decimal digits of a natural, without leading zeros
NatToDigits(a) ==
    IF a = NatZero THEN <<0>> ELSE NatToDigitsW(a, Log10Floor(a, 0) + 1)

RECURSIVE StripTrailingZeros(_, _)
StripTrailingZeros(ds, q) ==
    IF Len(ds) > 1 /\ ds[Len(ds)] = 0
    THEN StripTrailingZeros(SubSeq(ds, 1, Len(ds) - 1), q + 1)
    ELSE <<ds, q>>

\* the float nearest to (-1)^neg * c / d for c, d > 0
RatToFloat(neg, c, d) ==
    LET s == Max(MantBits + 2 + NatBitLen(d) - NatBitLen(c), 0)
    IN  FloatRound(neg, NatDivSticky(NatShl(c, s), d), -s - 1)

\* the float nearest to (-1)^neg * c * 10^q (a correctly rounded strtod)
DecToFloat(neg, c, q) ==
    IF c = NatZero THEN FloatZero(neg)
    ELSE IF q >= 0 THEN FloatRound(neg, NatMul(NatPow10(q), c), 0)
    ELSE The({RatToFloat(neg, c, d) : d \in {NatPow10(-q)}})

\* int(text): the int a token of kind "int" denotes
ParseInt(t) == MkInt(t.neg, DigitsToNat(t.digits))

\* float(text): the float a numeric token denotes
ParseFloat(t) ==
    IF t.kind = "nan" THEN FloatNaN
    ELSE IF t.kind = "inf" THEN FloatInf(t.neg)
    ELSE DecToFloat(t.neg, DigitsToNat(t.digits), t.exp10)

\* of the candidates cs (naturals, the preferred first) the first c with
\* float(c * 10^q) = ax: <<whether there is one, c, q>>
RECURSIVE FirstReadBack(_, _, _, _)
FirstReadBack(ax, cs, q, i) ==
    IF i > Len(cs) THEN <<FALSE, cs[1], q>>
    ELSE IF DecToFloat(FALSE, cs[i], q) = ax THEN <<TRUE, cs[i], q>>
    ELSE FirstReadBack(ax, cs, q, i + 1)

\* <<the integer nearest to num / den (ties to even), the second nearest>>
NatNearestTwo(num, den) ==
    The({The({<<near, IF near = qr[1] THEN NatAdd(qr[1], NatOne) ELSE qr[1]>> :
              near \in {NatNearest(qr[1], qr[2], den)}}) :
         qr \in {NatDivMod(num, den)}})

\* the decimal of n digits that float() reads back as |x|, the one nearest to |x|
\* first: <<whether there is one, its digits as a natural, the power of ten of its
\* last digit>>; k = floor(log10 |x|)
RoundTrip(x, k, n) ==
    LET q == k - n + 1
    IN  FirstReadBack([x EXCEPT !.neg = FALSE],
                      NatNearestTwo(
                          NatShl(NatMul(NatPow10(Max(-q, 0)), x.mant), Max(x.exp, 0)),
                          NatShl(NatPow10(Max(q, 0)), Max(-x.exp, 0))),
                      q, 1)

\* the shortest decimal that float() reads back as |x|, of lo to hi digits, when one
\* of hi digits does (17 digits always do, and more digits never hurt)
RECURSIVE Shortest(_, _, _, _)
Shortest(x, k, lo, hi) ==
    IF lo >= hi THEN RoundTrip(x, k, hi)
    ELSE LET mid == (lo + hi) \div 2
         IN  IF RoundTrip(x, k, mid)[1] THEN Shortest(x, k, lo, mid)
             ELSE Shortest(x, k, mid + 1, hi)

\* two digits short of what every float needs
ReprDigitsShort == 17 - 2

ReprDigits == 17

\* the token of the digits of c * 10^q, trailing zeros dropped
DecToken(neg, c, q) ==
    The({Token("float", neg, dq[1], dq[2]) :
         dq \in {StripTrailingZeros(NatToDigits(c), q)}})

\* repr(x) for a float x
FloatRepr(x) ==
    IF IsNaN(x) THEN TokNaN
    ELSE IF IsInf(x) THEN TokInf(x.neg)
    ELSE IF IsZero(x) THEN Token("float", x.neg, <<0>>, 0)
    ELSE The({DecToken(x.neg, cq[2], cq[3]) :
              cq \in {Shortest(x, Log10Floor(x.mant, x.exp), 1, ReprDigits)}})

\* repr(i) for an int i
IntRepr(i) == Token("int", i.neg, NatToDigits(i.mag), 0)

\* format(x, ",.2f"): x to two decimals, ties of the exact value to even
Format2f(x) ==
    IF IsNaN(x) THEN TokNaN
    ELSE IF IsInf(x) THEN TokInf(x.neg)
    ELSE Token("float", x.neg,
               NatToDigits(IF x.exp >= 0 THEN NatShl(NatMulSmall(x.mant, 100), x.exp)
                           ELSE NatShrHalfEven(NatMulSmall(x.mant, 100), -x.exp)),
               -2)

(***************************************************************************)
(* Outcomes: a value returned, or an exception raised.                     *)
(***************************************************************************)
Ok(v) == [ok |-> TRUE, exc |-> "none", val |-> <<v>>]
Raise(e) == [ok |-> FALSE, exc |-> e, val |-> <<>>]
Val(o) == o.val[1]

\* i * x for an int i and a float x: the int is converted to float first
IntMulFloat(i, x) ==
    The({IF IsInf(f) THEN Raise("OverflowError") ELSE Ok(FloatMul(f, x)) :
         f \in {IntToFloat(i)}})

\* round(x) for a float x
Round(x) ==
    IF IsNaN(x) THEN Raise("ValueError")
    ELSE IF IsInf(x) THEN Raise("OverflowError")
    ELSE Ok(FloatRoundHalfEven(x))

\* int(x) for a float x
IntOfFloat(x) ==
    IF IsNaN(x) THEN Raise("ValueError")
    ELSE IF IsInf(x) THEN Raise("OverflowError")
    ELSE Ok(FloatTrunc(x))

(***************************************************************************)
(* compute_market_cap                                                      *)
(***************************************************************************)
\* count_high = int(round(n_active * high_percentile))
CountHigh(n_active, high_percentile) ==
    The({IF ~p.ok THEN p ELSE Round(Val(p)) :
         p \in {IntMulFloat(n_active, high_percentile)}})

\* the subtraction with its operands exchanged
CountRemainingSwapped(n_active, count_high) == IntSub(count_high, n_active)

\* count_remaining = n_active - count_high
CountRemaining(n_active, count_high) == IntSub(n_active, count_high)

\* total_high_payroll = count_high * high_salary
TotalHighPayroll(count_high, high_salary) == IntMulFloat(count_high, high_salary)

\* total_remaining_payroll = count_remaining * avg_salary
TotalRemainingPayroll(count_remaining, avg_salary) ==
    IntMulFloat(count_remaining, avg_salary)

\* the remaining payroll subtracted instead of added
TotalMarketCapDifference(total_high_payroll, total_remaining_payroll) ==
    FloatAdd(total_high_payroll,
             [total_remaining_payroll EXCEPT !.neg = ~total_remaining_payroll.neg])

\* total_market_cap = total_high_payroll + total_remaining_payroll
TotalMarketCap(total_high_payroll, total_remaining_payroll) ==
    FloatAdd(total_high_payroll, total_remaining_payroll)

Fields ==
    {"n_active", "avg_salary", "high_percentile", "high_salary", "count_high",
     "count_remaining", "total_high_payroll", "total_remaining_payroll",
     "total_market_cap"}

IntFields == {"n_active", "count_high", "count_remaining"}

\* lines 60-78; each local is bound, innermost last, to the value its assignment
\* gives it, and an exception raised by an assignment is the outcome of the call
compute_market_cap(n_active, avg_salary, high_percentile, high_salary) ==
    The({
      IF ~count_high.ok THEN count_high ELSE
      The({
        The({
          IF ~total_high_payroll.ok THEN total_high_payroll ELSE
          The({
            IF ~total_remaining_payroll.ok THEN total_remaining_payroll ELSE
            Ok([n_active |-> n_active,
                avg_salary |-> avg_salary,
                high_percentile |-> high_percentile,
                high_salary |-> high_salary,
                count_high |-> Val(count_high),
                count_remaining |-> count_remaining,
                total_high_payroll |-> Val(total_high_payroll),
                total_remaining_payroll |-> Val(total_remaining_payroll),
                total_market_cap |->
                    TotalMarketCap(Val(total_high_payroll),
                                   Val(total_remaining_payroll))]) :
            total_remaining_payroll \in
                {TotalRemainingPayroll(count_remaining, avg_salary)}}) :
          total_high_payroll \in {TotalHighPayroll(Val(count_high), high_salary)}}) :
        count_remaining \in {CountRemaining(n_active, Val(count_high))}}) :
      count_high \in {CountHigh(n_active, high_percentile)}})

(***************************************************************************)
(* main: the command line, the JSON document and the report.               *)
(***************************************************************************)
IntTok(neg, digits) == Token("int", neg, digits, 0)
DecTok(neg, digits, exp10) == Token("float", neg, digits, exp10)

\* the defaults of the four numeric options
DefaultAvgSalary == DecToFloat(FALSE, NatOf(48000), 0)
DefaultHighSalary == DecToFloat(FALSE, NatOf(110000), 0)
DefaultNActive == IntOf(9631)
DefaultPercentHigh == DecToFloat(FALSE, NatOf(5), -2)

\* type=float: float(text) of an option's value, the default when it is not given
FloatArg(opt, default) ==
    IF opt = <<>> THEN Ok(default)
    ELSE IF opt[1].kind \in {"int", "float", "nan", "inf"} THEN Ok(ParseFloat(opt[1]))
    ELSE Raise("SystemExit")

\* type=int: int(text) of an option's value, the default when it is not given
IntArg(opt, default) ==
    IF opt = <<>> THEN Ok(default)
    ELSE IF opt[1].kind = "int" THEN Ok(ParseInt(opt[1]))
    ELSE Raise("SystemExit")

\* parser.parse_args() when -h is not given: the namespace, or the usage error
parse_args(argv) ==
    The({IF \E opt \in DOMAIN o : ~o[opt].ok
         THEN Raise("SystemExit")
         ELSE Ok([avg_salary |-> Val(o.avg_salary),
                  high_salary |-> Val(o.high_salary),
                  n_active |-> Val(o.n_active),
                  percent_high |-> Val(o.percent_high),
                  json_out |-> argv.json_out]) :
         o \in {[avg_salary |-> FloatArg(argv.avg_salary, DefaultAvgSalary),
                 high_salary |-> FloatArg(argv.high_salary, DefaultHighSalary),
                 n_active |-> IntArg(argv.n_active, DefaultNActive),
                 percent_high |-> FloatArg(argv.percent_high, DefaultPercentHigh)]}})

\* the test `args.json_out is not None`, which the empty string passes
UseJsonGiven(json_out) == json_out # <<>>

\* `if args.json_out:` : None and the empty string are false
UseJson(json_out) == json_out # <<>> /\ json_out[1] # ""

\* the paths open(path, "w") can create or truncate
Openable == {"out.json"}

\* json.dump(result): each field's number as text
JsonDump(result) ==
    [f \in Fields |->
        IF f \in IntFields THEN IntRepr(result[f]) ELSE FloatRepr(result[f])]

\* json.load of a document: a number without fraction or exponent is an int
JsonLoad(doc) ==
    [f \in DOMAIN doc |->
        IF doc[f].kind = "int" THEN ParseInt(doc[f]) ELSE ParseFloat(doc[f])]

Million == DecToFloat(FALSE, NatOne, 6)
Hundred == IntToFloat(IntOf(100))

\* a payroll in the report: in millions, to two decimals
Millions(x) == Format2f(FloatDiv(x, Million))

\* the six lines of the report: the numbers formatted into it
Report(result) ==
    The({IF ~top.ok THEN top
         ELSE Ok([kind |-> "report",
                  n_active |-> IntRepr(result.n_active),
                  avg_salary |-> Format2f(result.avg_salary),
                  top_percent |-> IntRepr(Val(top)),
                  count_high |-> IntRepr(result.count_high),
                  high_salary |-> Format2f(result.high_salary),
                  total_high_payroll |-> Millions(result.total_high_payroll),
                  total_remaining_payroll |-> Millions(result.total_remaining_payroll),
                  total_market_cap |-> Millions(result.total_market_cap)]) :
         top \in {IntOfFloat(FloatMul(result.high_percentile, Hundred))}})

(***************************************************************************)
(* State.                                                                  *)
(***************************************************************************)
VARIABLES
    mode,         \* "script": the file is run; "main": main() is called;
                  \* "call": compute_market_cap is called
    pc,           \* "start", "parsed", "computed", "exited", "returned"
    argv,         \* the command line: each option's value as <<text>>, or <<>>
    args,         \* <<the namespace parse_args returned>>, or <<>>
    call,         \* <<the arguments compute_market_cap was called with>>, or <<>>
    outcome,      \* <<what compute_market_cap returned or raised>>, or <<>>
    stdout,       \* what was printed to standard output
    stderr,       \* what was printed to standard error
    files,        \* each path's content: <<the document written>>, or <<>>
    exit_status,  \* "running", or the process's exit status "0", "1", "2"
    calls         \* how many times compute_market_cap was called

vars == <<mode, pc, argv, args, call, outcome, stdout, stderr, files, exit_status, calls>>

Paths == {"", "out.json", "/nonexistent/out.json"}

\* the command lines tried
ArgvNActive ==
    {<<>>, <<IntTok(FALSE, <<0>>)>>, <<IntTok(FALSE, <<5>>)>>,
     <<IntTok(FALSE, <<9, 0, 0, 7, 1, 9, 9, 2, 5, 4, 7, 4, 0, 9, 9, 5>>)>>,
     <<DecTok(FALSE, <<5, 5>>, -1)>>, <<TokWord>>}
ArgvPercentHigh ==
    {<<>>, <<DecTok(FALSE, <<5>>, -1)>>, <<DecTok(FALSE, <<1>>, 308)>>, <<TokNaN>>,
     <<TokWord>>}
ArgvAvgSalary == {<<>>, <<DecTok(FALSE, <<1>>, -1)>>}
ArgvHighSalary == {<<>>, <<TokInf(FALSE)>>}
ArgvJsonOut == {<<>>} \cup {<<p>> : p \in Paths}

Argv ==
    [help : BOOLEAN, avg_salary : ArgvAvgSalary, high_salary : ArgvHighSalary,
     n_active : ArgvNActive, percent_high : ArgvPercentHigh, json_out : ArgvJsonOut]

NoArgv ==
    [help |-> FALSE, avg_salary |-> <<>>, high_salary |-> <<>>, n_active |-> <<>>,
     percent_high |-> <<>>, json_out |-> <<>>]

InitCommon ==
    /\ pc = "start"
    /\ args = <<>>
    /\ outcome = <<>>
    /\ stdout = <<>>
    /\ stderr = <<>>
    /\ files = [p \in Paths |-> <<>>]
    /\ exit_status = "running"
    /\ calls = 0

Init ==
    /\ mode \in {"script", "main"}
    /\ argv \in Argv
    /\ call = <<>>
    /\ InitCommon

Exit(status) ==
    /\ pc' = "exited"
    /\ exit_status' = status

\* the file run as a script: the definitions, then the __main__ guard, whose body is
\* the expression `main`
Script ==
    /\ mode = "script"
    /\ pc = "start"
    /\ Exit("0")
    /\ UNCHANGED <<mode, argv, args, call, outcome, stdout, stderr, files, calls>>

\* main, lines 82-113: the parser and parse_args; -h, when given, comes first
ParseArgs ==
    /\ mode = "main"
    /\ pc = "start"
    /\ IF argv.help
       THEN /\ stdout' = Append(stdout, [kind |-> "help"])
            /\ Exit("0")
            /\ UNCHANGED <<args, stderr>>
       ELSE \E ns \in {parse_args(argv)} :
                IF ns.ok
                THEN /\ args' = <<Val(ns)>>
                     /\ pc' = "parsed"
                     /\ UNCHANGED <<stdout, stderr, exit_status>>
                ELSE /\ stderr' = Append(stderr, [kind |-> "usage"])
                     /\ Exit("2")
                     /\ UNCHANGED <<args, stdout>>
    /\ UNCHANGED <<mode, argv, call, outcome, files, calls>>

\* main, lines 115-120: the call of compute_market_cap
Compute ==
    /\ mode = "main"
    /\ pc = "parsed"
    /\ \E o \in {compute_market_cap(args[1].n_active, args[1].avg_salary,
                                     args[1].percent_high, args[1].high_salary)} :
           /\ call' = <<[n_active |-> args[1].n_active,
                         avg_salary |-> args[1].avg_salary,
                         high_percentile |-> args[1].percent_high,
                         high_salary |-> args[1].high_salary]>>
           /\ outcome' = <<o>>
           /\ calls' = calls + 1
           /\ IF o.ok
              THEN /\ pc' = "computed"
                   /\ UNCHANGED <<exit_status, stderr>>
              ELSE /\ stderr' = Append(stderr, [kind |-> o.exc])
                   /\ Exit("1")
    /\ UNCHANGED <<mode, argv, args, stdout, files>>

\* main, lines 122-124: the result written to the file as JSON
WriteJson ==
    /\ mode = "main"
    /\ pc = "computed"
    /\ UseJson(args[1].json_out)
    /\ LET path == args[1].json_out[1]
       IN  IF path \in Openable
           THEN /\ files' = [files EXCEPT ![path] = <<JsonDump(Val(outcome[1]))>>]
                /\ Exit("0")
                /\ UNCHANGED stderr
           ELSE /\ stderr' = Append(stderr, [kind |-> "FileNotFoundError"])
                /\ Exit("1")
                /\ UNCHANGED files
    /\ UNCHANGED <<mode, argv, args, call, outcome, stdout, calls>>

\* main, lines 125-136: the report printed
PrintReport ==
    /\ mode = "main"
    /\ pc = "computed"
    /\ ~UseJson(args[1].json_out)
    /\ \E r \in {Report(Val(outcome[1]))} :
           IF r.ok
           THEN /\ stdout' = Append(stdout, Val(r))
                /\ Exit("0")
                /\ UNCHANGED stderr
           ELSE /\ stderr' = Append(stderr, [kind |-> r.exc])
                /\ Exit("1")
                /\ UNCHANGED stdout
    /\ UNCHANGED <<mode, argv, args, call, outcome, files, calls>>

Next == Script \/ ParseArgs \/ Compute \/ WriteJson \/ PrintReport

Spec == Init /\ [][Next]_vars

(***************************************************************************)
(* compute_market_cap called directly, on inputs in and out of its domain. *)
(***************************************************************************)
MaxN == 6

Pow2(k) == MkInt(FALSE, NatShl(NatOne, k))

CallNActive ==
    {IntOf(n) : n \in 0..MaxN}
    \cup {IntOf(100), DefaultNActive, IntOf(-5),
          IntAdd(Pow2(53), IntOf(3)), IntAdd(Pow2(54), IntOf(6)), Pow2(1024),
          IntNeg(Pow2(1023))}

CallHighPercentile ==
    {FloatZero(FALSE), DefaultPercentHigh, DecToFloat(FALSE, NatOf(5), -1),
     DecToFloat(FALSE, NatOne, 0), DecToFloat(FALSE, NatOf(15), -1),
     DecToFloat(TRUE, NatOf(5), -1), DecToFloat(FALSE, NatOne, 308),
     FloatNaN, FloatInf(FALSE)}

CallAvgSalary == {DefaultAvgSalary, DecToFloat(FALSE, NatOne, 308)}

CallHighSalary == {DefaultHighSalary, DecToFloat(FALSE, NatOne, 308), FloatInf(FALSE)}

InitCall ==
    /\ mode = "call"
    /\ argv = NoArgv
    /\ call \in {<<c>> : c \in [n_active : CallNActive, avg_salary : CallAvgSalary,
                                high_percentile : CallHighPercentile,
                                high_salary : CallHighSalary]}
    /\ InitCommon

Call ==
    /\ mode = "call"
    /\ pc = "start"
    /\ outcome' = <<compute_market_cap(call[1].n_active, call[1].avg_salary,
                                       call[1].high_percentile, call[1].high_salary)>>
    /\ calls' = calls + 1
    /\ pc' = "returned"
    /\ UNCHANGED <<mode, argv, args, call, stdout, stderr, files, exit_status>>

NextCall == Call

SpecCall == InitCall /\ [][NextCall]_vars

(***************************************************************************)
(* The claims.  C1, C3, C4, C5, C6 and C8 are about compute_market_cap and *)
(* are checked under SpecCall; C2, C7, C9 and C10 are about the program    *)
(* and are checked under Spec.                                             *)
(***************************************************************************)

\* C1: for every call with integer n_active >= 0 and high_percentile in [0,1], the
\* returned count_high and count_remaining satisfy
\* count_high + count_remaining == n_active.
C1_CountsSumToNActive ==
    LET c == call[1]
        r == Val(outcome[1])
    IN  (/\ mode = "call" /\ pc = "returned" /\ outcome[1].ok
         /\ ~c.n_active.neg
         /\ IsFinite(c.high_percentile)
         /\ IsZero(c.high_percentile) \/ ~c.high_percentile.neg
         /\ FloatCmp(c.high_percentile, DecToFloat(FALSE, NatOne, 0)) <= 0)
        => IntAdd(r.count_high, r.count_remaining) = c.n_active

\* a call in the domain has returned, with both groups populated
C1_Witness ==
    /\ mode = "call" /\ pc = "returned" /\ outcome[1].ok
    /\ call[1].n_active = IntOf(5)
    /\ call[1].high_percentile = DecToFloat(FALSE, NatOf(5), -1)
    /\ Val(outcome[1]).count_high = IntOf(2)
    /\ Val(outcome[1]).count_remaining = IntOf(3)

\* C2: every invocation of the program as a script performs exactly one call of the
\* estimator and exactly one output action (one file written or one report printed)
\* before the process ends; no run ends successfully having produced no output.
C2_ScriptRunsOnce ==
    LET IsReport(e) == e.kind = "report"
        outputs == Len(SelectSeq(stdout, IsReport))
                   + Cardinality({p \in Paths : files[p] # <<>>})
    IN  (mode = "script" /\ pc = "exited" /\ exit_status = "0")
        => calls = 1 /\ outputs = 1

\* C3: for every call with valid inputs (n_active >= 0, high_percentile in [0,1],
\* finite salaries >= 0), total_high_payroll == count_high * high_salary,
\* total_remaining_payroll == count_remaining * avg_salary and
\* total_market_cap == total_high_payroll + total_remaining_payroll.
C3_PayrollEqualities ==
    LET c == call[1]
        r == Val(outcome[1])
    IN  (/\ mode = "call" /\ pc = "returned" /\ outcome[1].ok
         /\ ~c.n_active.neg
         /\ IsFinite(c.high_percentile)
         /\ IsZero(c.high_percentile) \/ ~c.high_percentile.neg
         /\ FloatCmp(c.high_percentile, DecToFloat(FALSE, NatOne, 0)) <= 0
         /\ IsFinite(c.avg_salary) /\ ~c.avg_salary.neg
         /\ IsFinite(c.high_salary) /\ ~c.high_salary.neg)
        => /\ FloatEq(r.total_high_payroll,
                      Val(IntMulFloat(r.count_high, c.high_salary)))
           /\ FloatEq(r.total_remaining_payroll,
                      Val(IntMulFloat(r.count_remaining, c.avg_salary)))
           /\ FloatEq(r.total_market_cap,
                      FloatAdd(r.total_high_payroll, r.total_remaining_payroll))

\* C4: for every integer n_active >= 0 and every high_percentile in [0,1], the call
\* returns count_high >= 0 and count_remaining >= 0: rounding
\* n_active * high_percentile never yields a count larger than the population.
C4_CountsWithinPopulation ==
    LET c == call[1]
        r == Val(outcome[1])
    IN  (/\ mode = "call" /\ pc = "returned" /\ outcome[1].ok
         /\ ~c.n_active.neg
         /\ IsFinite(c.high_percentile)
         /\ IsZero(c.high_percentile) \/ ~c.high_percentile.neg
         /\ FloatCmp(c.high_percentile, DecToFloat(FALSE, NatOne, 0)) <= 0)
        => ~r.count_high.neg /\ ~r.count_remaining.neg

\* C5: the returned count_high is the integer nearest to n_active * high_percentile
\* (at most 1/2 away from it), the even one when the product is halfway between two
\* integers; for the default inputs it is 482, and count_remaining is 9149.  With
\* high_percentile = mant * 2^exp the distance is compared exactly, scaled by
\* 2^max(-exp, 0).
C5_CountHighIsNearest ==
    LET c     == call[1]
        r     == Val(outcome[1])
        hp    == c.high_percentile
        scale == NatShl(NatOne, Max(-hp.exp, 0))
        prod  == MkInt(c.n_active.neg # hp.neg,
                       NatShl(NatMul(c.n_active.mag, hp.mant), Max(hp.exp, 0)))
        diff  == IntSub(IntMul(r.count_high, MkInt(FALSE, scale)), prod)
        half  == NatCmp(NatMulSmall(diff.mag, 2), scale)
    IN  (mode = "call" /\ pc = "returned" /\ outcome[1].ok /\ IsFinite(hp))
        => /\ half <= 0
           /\ half = 0 => ~NatIsOdd(r.count_high.mag)
           /\ (c.n_active = DefaultNActive /\ hp = DefaultPercentHigh)
              => r.count_high = IntOf(482) /\ r.count_remaining = IntOf(9149)

\* C6: for every n_active >= 0 and all (finite) salaries, high_percentile = 0 gives
\* count_high = 0 and total_market_cap == n_active * avg_salary, and
\* high_percentile = 1 gives count_remaining = 0 and
\* total_market_cap == n_active * high_salary.
C6_DegenerateEndpoints ==
    LET c == call[1]
        r == Val(outcome[1])
    IN  (/\ mode = "call" /\ pc = "returned" /\ outcome[1].ok
         /\ ~c.n_active.neg
         /\ IsFinite(c.avg_salary) /\ IsFinite(c.high_salary))
        => /\ IsZero(c.high_percentile)
              => /\ r.count_high = IntZero
                 /\ FloatEq(r.total_market_cap,
                            Val(IntMulFloat(c.n_active, c.avg_salary)))
           /\ c.high_percentile = DecToFloat(FALSE, NatOne, 0)
              => /\ r.count_remaining = IntZero
                 /\ FloatEq(r.total_market_cap,
                            Val(IntMulFloat(c.n_active, c.high_salary)))

C8_NeverRaises ==
    LET r == Val(outcome[1])
    IN  (mode = "call" /\ pc = "returned")
        => /\ outcome[1].ok
           /\ IntAdd(r.count_high, r.count_remaining) = call[1].n_active
           /\ FloatEq(r.total_market_cap,
                      FloatAdd(r.total_high_payroll, r.total_remaining_payroll))

\* C8, amended: compute_market_cap validates nothing and raises only where the
\* arithmetic does: ValueError when n_active * high_percentile is NaN,
\* OverflowError when n_active is too large for a float, when that product is
\* infinite, or when count_remaining is too large for a float.  Otherwise it
\* returns, also for negative n_active and high_percentile outside [0,1], and every
\* result has count_high + count_remaining == n_active and
\* total_market_cap == total_high_payroll + total_remaining_payroll, unless that
\* sum is NaN.
C8_RaisesOnlyWhereArithmeticDoes ==
    LET c   == call[1]
        o   == outcome[1]
        r   == Val(o)
        f   == IntToFloat(c.n_active)
        p   == FloatMul(f, c.high_percentile)
        big == /\ ~IsInf(f) /\ IsFinite(p)
               /\ IsInf(IntToFloat(IntSub(c.n_active, FloatRoundHalfEven(p))))
        sum == FloatAdd(r.total_high_payroll, r.total_remaining_payroll)
    IN  (mode = "call" /\ pc = "returned")
        => /\ o.exc \in {"none", "ValueError", "OverflowError"}
           /\ o.exc = "ValueError" <=> (~IsInf(f) /\ IsNaN(p))
           /\ o.exc = "OverflowError" <=> (IsInf(f) \/ IsInf(p) \/ big)
           /\ o.ok => /\ IntAdd(r.count_high, r.count_remaining) = c.n_active
                      /\ IsNaN(sum) \/ FloatEq(r.total_market_cap, sum)

\* a call out of the domain (a negative population, a fraction above 1) has returned
C8_Witness ==
    /\ mode = "call" /\ pc = "returned" /\ outcome[1].ok
    /\ call[1].n_active = IntOf(-5)
    /\ call[1].high_percentile = DecToFloat(FALSE, NatOf(15), -1)
    /\ Val(outcome[1]).count_high = IntOf(-8)
    /\ Val(outcome[1]).count_remaining = IntOf(3)

\* C9: an invocation of the program exits with status 0 exactly when argument
\* parsing succeeds and the output is produced; one whose numeric flag value is
\* malformed ends with a non-zero status without running the estimator or
\* producing any result output.
C9_ExitStatus ==
    LET IsReport(e) == e.kind = "report"
        Numeric(opt) == opt = <<>> \/ opt[1].kind \in {"int", "float", "nan", "inf"}
        malformed == \/ ~Numeric(argv.avg_salary)
                     \/ ~Numeric(argv.high_salary)
                     \/ ~Numeric(argv.percent_high)
                     \/ argv.n_active # <<>> /\ argv.n_active[1].kind # "int"
        produced == \/ SelectSeq(stdout, IsReport) # <<>>
                    \/ \E p \in Paths : files[p] # <<>>
    IN  (mode = "script" /\ pc = "exited")
        => /\ exit_status = "0" <=> (~malformed /\ produced)
           /\ malformed => exit_status # "0" /\ calls = 0 /\ ~produced

\* C10: when json-out is given, the document written is an object with exactly the
\* nine fields of the result, and parsing it back yields the nine values that
\* compute_market_cap returned (nan is read back as nan).
C10_JsonRoundTrip ==
    \A p \in Paths :
        files[p] # <<>>
        => /\ DOMAIN files[p][1] = Fields
           /\ Cardinality(DOMAIN files[p][1]) = 9
           /\ outcome # <<>> /\ outcome[1].ok
           /\ JsonLoad(files[p][1]) = Val(outcome[1])

\* a document has been written in which a float takes all seventeen digits
C10_Witness ==
    /\ files["out.json"] # <<>>
    /\ Len(files["out.json"][1].total_remaining_payroll.digits) = 17
    /\ JsonLoad(files["out.json"][1]) = Val(outcome[1])
====
